---- MODULE Spec2Model ----
(***************************************************************************)
(* Job Shop scheduling by a genetic algorithm: the solution template       *)
(* (NEC2/SolutionTemplate.h), its conflict resolution, the fitness, and    *)
(* the genetic operators and loop of NEC2/main.cpp.                        *)
(*                                                                         *)
(* Indices.  The C++ vectors are 0-based; the sequences here are 1-based.  *)
(* Task index k of the code is position k+1 of `tasks`; job_id j is        *)
(* position j+1 of `jobs`; machine_id m is position m+1 of `machines`.     *)
(* The fields job_id and machine_id of a task keep the code's 0-based ids. *)
(***************************************************************************)
EXTENDS Integers, Sequences, FiniteSets, TLC

VARIABLES
    tasks,                  \* std::vector<Task>: job_id, machine_id, sequence_number, length, start_time
    machines,               \* per machine, the task indices on it (order changes with every sort)
    jobs,                   \* per job, the task indices in job order
    cached_horizon,         \* __cached_horizon, -1 when not computed
    cached_lower_bound,     \* __cached_absolute_lowest_bound, -1 when not computed
    pc,                     \* where the driver / resolve_conflicts is
    had_collision,          \* the local of resolve_conflicts
    loaded,                 \* history: the start times resolve_conflicts was entered with
    was_feasible,           \* history: whether that schedule was feasible
    passes,                 \* history: loop bodies begun by the running resolve_conflicts
    shifts,                 \* history: shifts made by the running resolve_conflicts
    resolves,               \* history: resolve_conflicts calls since the last load
    result,                 \* what the last call returned
    population,             \* Population of solve_using_genetic_algorithm
    generation,             \* its loop counter
    cursor,                 \* its position inside the loop over the population
    mutations,              \* history: mutate calls made so far
    distributions,          \* per operator, the size its static distribution was built with
    evaluations             \* the evaluations that use the template side by side

vars == <<tasks, machines, jobs, cached_horizon, cached_lower_bound, pc, had_collision,
          loaded, was_feasible, passes, shifts, resolves, result, population, generation,
          cursor, mutations, distributions,
          evaluations>>

template == <<tasks, machines, jobs, cached_horizon, cached_lower_bound>>
resolve_locals == <<had_collision, loaded, was_feasible, passes, shifts, resolves>>
ga == <<population, generation, cursor, mutations>>

\* The distributions of the cut points and of the mutated position are
\* function-local statics of main.cpp: each is built once, by the first call
\* that reaches its declaration, from the size of that call's argument.
\* 0 stands for a distribution that is not built yet.
NotConstructed == [crossover_1point |-> 0, crossover_2point |-> 0, mutate |-> 0]

\* no evaluation uses the template side by side with another
NoEvaluations == [access |-> "sequential", holder |-> 0, of |-> <<>>]

\* the size a static distribution has in a call whose argument has `size` elements
Constructed(first, size) == IF first = 0 THEN size ELSE first

(***************************************************************************)
(* Bounds of the model.                                                    *)
(***************************************************************************)
MaxStart == 1           \* loaded start times are drawn from 0..MaxStart
MaxPasses == 4          \* a running resolve_conflicts is followed for this many loop bodies
MaxResolves == 2        \* resolve_conflicts is called at most this often on one loaded chromosome

StartTimes == 0 .. MaxStart

\* the instance files read: at most two lines (jobs) of one or two pairs
\* (machine id, length) each
JobCounts == {1, 2}
StepCounts == {1, 2}
MachineIds == {0, 1}
Lengths == {0, 1}

StepLists ==
    UNION { [1 .. n -> MachineIds \X Lengths] : n \in StepCounts }

(***************************************************************************)
(* Helpers on sequences.                                                   *)
(***************************************************************************)
Max(a, b) == IF a >= b THEN a ELSE b

RECURSIVE SumSeq(_)
SumSeq(s) == IF s = <<>> THEN 0 ELSE Head(s) + SumSeq(Tail(s))

\* std::vector::resize(n): truncates, or appends empty elements
Resize(v, n) ==
    [i \in 1 .. n |-> IF i <= Len(v) THEN v[i] ELSE <<>>]

\* every rearrangement of the sequence g
PermsOf(g) ==
    { [i \in 1 .. Len(g) |-> g[f[i]]] :
        f \in { h \in [1 .. Len(g) -> 1 .. Len(g)] :
                  \A i, j \in 1 .. Len(g) : i # j => h[i] # h[j] } }

Starts(ts) == [i \in 1 .. Len(ts) |-> ts[i].start_time]

(***************************************************************************)
(* SolutionTemplate::add_job.  T is a record [tasks, machines, jobs].      *)
(***************************************************************************)
EmptyTemplate == [tasks |-> <<>>, machines |-> <<>>, jobs |-> <<>>]

\* one iteration of the loop of add_job: the step at position k of `steps`
AddStep(T, job_id, steps, k) ==
    LET machine_id == steps[k][1]
        length == steps[k][2]
        task_index == Len(T.tasks) + 1
        grown == IF Len(T.machines) <= machine_id
                 THEN Resize(T.machines, machine_id + 1)
                 ELSE T.machines
    IN  [tasks |-> Append(T.tasks,
                     [job_id |-> job_id, machine_id |-> machine_id,
                      sequence_number |-> k - 1, length |-> length, start_time |-> 0]),
         jobs |-> [T.jobs EXCEPT ![job_id + 1] = Append(@, task_index)],
         machines |-> [grown EXCEPT ![machine_id + 1] = Append(@, task_index)]]

RECURSIVE AddSteps(_, _, _, _)
AddSteps(T, job_id, steps, k) ==
    IF k > Len(steps) THEN T
    ELSE AddSteps(AddStep(T, job_id, steps, k), job_id, steps, k + 1)

add_job(T, job_id, steps) ==
    AddSteps([T EXCEPT !.jobs = Resize(T.jobs, job_id + 1)], job_id, steps, 1)

(***************************************************************************)
(* std::sort of a machine group by start time: any arrangement in which    *)
(* the start times do not decrease (the order of equal start times is      *)
(* unspecified).                                                           *)
(***************************************************************************)
\* a slip: the comparison reads the task index for the start time
SortResults_ByIndex(g, ts) ==
    { p \in PermsOf(g) : \A i \in 1 .. Len(p) - 1 : p[i] <= p[i + 1] }

SortResults(g, ts) ==
    { p \in PermsOf(g) :
        \A i \in 1 .. Len(p) - 1 : ts[p[i]].start_time <= ts[p[i + 1]].start_time }

\* the loop over the machines that sorts each group: every outcome
RECURSIVE SortAll(_, _, _)
SortAll(ms, ts, m) ==
    IF m > Len(ms) THEN {ms}
    ELSE UNION { SortAll([ms EXCEPT ![m] = p], ts, m + 1) : p \in SortResults(ms[m], ts) }

\* a slip: the tuple index of the length (3) is used for that of the start time (4)
FilledTasks_IntoLength(ts, start_times) ==
    [i \in 1 .. Len(ts) |-> [ts[i] EXCEPT !.length = start_times[i]]]

\* fill_start_times: the start times after the copy loop
FilledTasks(ts, start_times) ==
    [i \in 1 .. Len(ts) |-> [ts[i] EXCEPT !.start_time = start_times[i]]]

\* a slip: the start times are copied before the length is tested
fill_start_times_CopyFirst(ts, ms, start_times) ==
    IF Len(start_times) # Len(ts)
    THEN {[outcome |-> "threw",
           tasks |-> [i \in 1 .. Len(ts) |->
                        IF i <= Len(start_times)
                        THEN [ts[i] EXCEPT !.start_time = start_times[i]] ELSE ts[i]],
           machines |-> ms]}
    ELSE { [outcome |-> "returned", tasks |-> FilledTasks(ts, start_times), machines |-> m] :
             m \in SortAll(ms, FilledTasks(ts, start_times), 1) }

\* fill_start_times(start_times): it throws on a length that is not the task
\* count, else copies the start times and sorts every machine group
fill_start_times(ts, ms, start_times) ==
    IF Len(start_times) # Len(ts)
    THEN {[outcome |-> "threw", tasks |-> ts, machines |-> ms]}
    ELSE { [outcome |-> "returned", tasks |-> FilledTasks(ts, start_times), machines |-> m] :
             m \in SortAll(ms, FilledTasks(ts, start_times), 1) }

(***************************************************************************)
(* resolve_conflicts.  The job pass and the machine pass run the same loop *)
(* over a group: for each adjacent pair, diff = start1 + length1 - start2, *)
(* and when diff > 0 the right task and all after it move forward by diff. *)
(* The result is [tasks, shifts]: the tasks and the number of shifts made. *)
(***************************************************************************)
\* a slip: the inner loop starts at j = i, so the left task moves as well
ShiftTail_FromLeft(ts, g, from, diff) ==
    [i \in 1 .. Len(ts) |->
        IF \E j \in from - 1 .. Len(g) : g[j] = i
        THEN [ts[i] EXCEPT !.start_time = @ + diff]
        ELSE ts[i]]

ShiftTail(ts, g, from, diff) ==
    [i \in 1 .. Len(ts) |->
        IF \E j \in from .. Len(g) : g[j] = i
        THEN [ts[i] EXCEPT !.start_time = @ + diff]
        ELSE ts[i]]

\* a slip: the length of the left task is forgotten
Diff_NoLength(ts, g, i) == ts[g[i]].start_time - ts[g[i + 1]].start_time

Diff(ts, g, i) == ts[g[i]].start_time + ts[g[i]].length - ts[g[i + 1]].start_time

\* a slip: a gap (diff < 0) is closed as an overlap is, by moving the rest back
RECURSIVE PassGroup_AnyDiff(_, _, _)
PassGroup_AnyDiff(ts, g, i) ==
    IF i >= Len(g) THEN [tasks |-> ts, shifts |-> 0]
    ELSE LET diff == Diff(ts, g, i)
             moved == IF diff # 0 THEN ShiftTail(ts, g, i + 1, diff) ELSE ts
             rest == PassGroup_AnyDiff(moved, g, i + 1)
         IN  [tasks |-> rest.tasks,
              shifts |-> rest.shifts + (IF diff # 0 THEN 1 ELSE 0)]

RECURSIVE PassGroup(_, _, _)
PassGroup(ts, g, i) ==
    IF i >= Len(g) THEN [tasks |-> ts, shifts |-> 0]
    ELSE LET diff == Diff(ts, g, i)
             moved == IF diff > 0 THEN ShiftTail(ts, g, i + 1, diff) ELSE ts
             rest == PassGroup(moved, g, i + 1)
         IN  [tasks |-> rest.tasks,
              shifts |-> rest.shifts + (IF diff > 0 THEN 1 ELSE 0)]

\* the loop over the jobs, from job j on
RECURSIVE JobPassFrom(_, _, _)
JobPassFrom(ts, js, j) ==
    IF j > Len(js) THEN [tasks |-> ts, shifts |-> 0]
    ELSE LET r == PassGroup(ts, js[j], 1)
             rest == JobPassFrom(r.tasks, js, j + 1)
         IN  [tasks |-> rest.tasks, shifts |-> r.shifts + rest.shifts]

\* the loop over the machines, from machine m on: sort, then the pass; every outcome
RECURSIVE MachinePassFrom(_, _, _)
MachinePassFrom(ts, ms, m) ==
    IF m > Len(ms) THEN {[tasks |-> ts, machines |-> ms, shifts |-> 0]}
    ELSE UNION {
           LET r == PassGroup(ts, p, 1)
           IN  { [tasks |-> q.tasks, machines |-> q.machines, shifts |-> q.shifts + r.shifts] :
                   q \in MachinePassFrom(r.tasks, [ms EXCEPT ![m] = p], m + 1) }
           : p \in SortResults(ms[m], ts) }

\* steps.size() - 1 and machine.size() - 1 are unsigned: on an empty group the
\* loop reads element 0 of an empty vector and the process dies
HasEmpty(groups) == \E g \in 1 .. Len(groups) : groups[g] = <<>>

(***************************************************************************)
(* horizon, absolute lowest bound, total runtime.                          *)
(***************************************************************************)
\* a slip: the longest task is taken for the sum of the lengths
calculate_horizon_Longest(ts) ==
    IF ts = <<>> THEN 0
    ELSE CHOOSE n \in { ts[i].length : i \in 1 .. Len(ts) } :
            \A i \in 1 .. Len(ts) : ts[i].length <= n

calculate_horizon(ts) == SumSeq([i \in 1 .. Len(ts) |-> ts[i].length])

MachineLoad(ts, g) == SumSeq([i \in 1 .. Len(g) |-> ts[g[i]].length])

RECURSIVE LowestBoundFrom(_, _, _, _)
LowestBoundFrom(ts, ms, m, max_time) ==
    IF m > Len(ms) THEN max_time
    ELSE LowestBoundFrom(ts, ms, m + 1,
            IF MachineLoad(ts, ms[m]) > max_time THEN MachineLoad(ts, ms[m]) ELSE max_time)

calculate_absolute_lowest_bound(ts, ms) == LowestBoundFrom(ts, ms, 1, 0)

\* a slip: the end time of the FIRST element of every machine group
RECURSIVE TotalRuntimeFrom_First(_, _, _, _)
TotalRuntimeFrom_First(ts, ms, m, max_time) ==
    IF m > Len(ms) THEN max_time
    ELSE LET first_task_index == ms[m][1]
             end_time == ts[first_task_index].start_time + ts[first_task_index].length
         IN  TotalRuntimeFrom_First(ts, ms, m + 1, Max(max_time, end_time))

\* the end time of the LAST element of every machine group, and 0
\* a slip: the start time of the last task is taken for its end time
RECURSIVE TotalRuntimeFrom_StartOnly(_, _, _, _)
TotalRuntimeFrom_StartOnly(ts, ms, m, max_time) ==
    IF m > Len(ms) THEN max_time
    ELSE LET last_task_index == ms[m][Len(ms[m])]
             end_time == ts[last_task_index].start_time
         IN  TotalRuntimeFrom_StartOnly(ts, ms, m + 1, Max(max_time, end_time))

RECURSIVE TotalRuntimeFrom(_, _, _, _)
TotalRuntimeFrom(ts, ms, m, max_time) ==
    IF m > Len(ms) THEN max_time
    ELSE LET last_task_index == ms[m][Len(ms[m])]
             end_time == ts[last_task_index].start_time + ts[last_task_index].length
         IN  TotalRuntimeFrom(ts, ms, m + 1, Max(max_time, end_time))

total_runtime(ts, ms) == TotalRuntimeFrom(ts, ms, 1, 0)

(***************************************************************************)
(* double arithmetic of fitness().  A double is [n, d]: the rational n/d   *)
(* when d > 0, and for d = 0 the value of n/0 in IEEE arithmetic: NaN for  *)
(* n = 0, +infinity or -infinity otherwise.  The integers involved are     *)
(* small, so every conversion int -> double is exact; the rounding of the  *)
(* quotient is not modelled.                                               *)
(***************************************************************************)
Dbl(n) == [n |-> n, d |-> 1]
NaN == [n |-> 0, d |-> 0]
IsNaN(x) == x.d = 0 /\ x.n = 0
IsFinite(x) == x.d > 0
Sign(n) == IF n > 0 THEN 1 ELSE IF n < 0 THEN -1 ELSE 0

\* a / b for doubles holding integers a and b
DblDiv(a, b) ==
    IF b > 0 THEN [n |-> a, d |-> b]
    ELSE IF b < 0 THEN [n |-> -a, d |-> -b]
    ELSE [n |-> Sign(a), d |-> 0]

\* 1.0 - x
OneMinus(x) ==
    IF x.d > 0 THEN [n |-> x.d - x.n, d |-> x.d] ELSE [n |-> -x.n, d |-> 0]

\* comparison and equality of finite doubles
DblLeq(x, y) == x.n * y.d <= y.n * x.d
DblEq(x, y) == x.d > 0 /\ y.d > 0 /\ x.n * y.d = y.n * x.d

\* a slip: the test against the horizon is missing
FitnessOf_NoHorizonTest(T, H, L) ==
    IF T < L THEN Dbl(1)
    ELSE OneMinus(DblDiv(T - L, H - L))

\* a slip: the ratio is returned as it is, not subtracted from 1.0
FitnessOf_Ratio(T, H, L) ==
    IF T < L THEN Dbl(1)
    ELSE IF T > H THEN Dbl(0)
    ELSE DblDiv(T - L, H - L)

\* a slip: the comparison with the lower bound is the wrong way round
FitnessOf_InvertedTest(T, H, L) ==
    IF T > L THEN Dbl(1)
    ELSE IF T > H THEN Dbl(0)
    ELSE OneMinus(DblDiv(T - L, H - L))

\* fitness() on the template with total runtime T and the two cached fields
FitnessOf(T, H, L) ==
    IF T < L THEN Dbl(1)
    ELSE IF T > H THEN Dbl(0)
    ELSE OneMinus(DblDiv(T - L, H - L))

fitness(ts, ms, H, L) == FitnessOf(total_runtime(ts, ms), H, L)

(***************************************************************************)
(* Feasibility of a schedule, read off the task catalog: on every machine  *)
(* the intervals [start, start + length) are pairwise disjoint, and in     *)
(* every job a step ends before the next step starts.                      *)
(***************************************************************************)
EndTime(t) == t.start_time + t.length

Overlap(a, b) == Max(a.start_time, b.start_time) < (IF EndTime(a) <= EndTime(b) THEN EndTime(a) ELSE EndTime(b))

MachineFeasible(ts) ==
    \A a, b \in 1 .. Len(ts) :
        (a # b /\ ts[a].machine_id = ts[b].machine_id) => ~Overlap(ts[a], ts[b])

JobFeasible(ts) ==
    \A a, b \in 1 .. Len(ts) :
        (ts[a].job_id = ts[b].job_id /\ ts[b].sequence_number = ts[a].sequence_number + 1)
            => EndTime(ts[a]) <= ts[b].start_time

Feasible(ts) == MachineFeasible(ts) /\ JobFeasible(ts)

(***************************************************************************)
(* The driver of the template: the instance is read job by job as main()   *)
(* does, the bounds are computed, and then a chromosome is loaded,         *)
(* repaired (once or again), and extracted or scored.  One behaviour       *)
(* follows one evaluation: what fill_start_times leaves behind depends on  *)
(* the instance and the loaded chromosome only, the order of equal start   *)
(* times inside a machine group being any order for every load.            *)
(***************************************************************************)
None == [kind |-> "none"]
Callable == pc \in {"loaded", "returned"}

Init ==
    /\ tasks = <<>>
    /\ machines = <<>>
    /\ jobs = <<>>
    /\ cached_horizon = -1
    /\ cached_lower_bound = -1
    /\ pc = "build"
    /\ had_collision = FALSE
    /\ loaded = <<>>
    /\ was_feasible = FALSE
    /\ passes = 0
    /\ shifts = 0
    /\ resolves = 0
    /\ result = None
    /\ population = <<>>
    /\ generation = 0
    /\ cursor = 0
    /\ mutations = 0
    /\ distributions = NotConstructed
    /\ evaluations = NoEvaluations

\* a slip: add_job leaves the cached bounds as they are
AddJob_KeepsCaches(job_id, steps) ==
    /\ pc = "build"
    /\ LET T == add_job([tasks |-> tasks, machines |-> machines, jobs |-> jobs], job_id, steps)
       IN  /\ tasks' = T.tasks
           /\ machines' = T.machines
           /\ jobs' = T.jobs
    /\ result' = None
    /\ UNCHANGED <<cached_horizon, cached_lower_bound, pc, resolve_locals, ga, distributions, evaluations>>

\* solution_template.add_job(job_id, steps)
AddJob(job_id, steps) ==
    /\ pc = "build"
    /\ LET T == add_job([tasks |-> tasks, machines |-> machines, jobs |-> jobs], job_id, steps)
       IN  /\ tasks' = T.tasks
           /\ machines' = T.machines
           /\ jobs' = T.jobs
    /\ cached_lower_bound' = -1
    /\ cached_horizon' = -1
    /\ result' = None
    /\ UNCHANGED <<pc, resolve_locals, ga, distributions, evaluations>>

\* main(): one line of the file, the job ids counting up from 0
ReadJob ==
    /\ \E n \in JobCounts : Len(jobs) < n
    /\ \E steps \in StepLists : AddJob(Len(jobs), steps)

\* horizon()
Horizon ==
    /\ pc = "build"
    /\ cached_horizon' = IF cached_horizon = -1 THEN calculate_horizon(tasks) ELSE cached_horizon
    /\ result' = [kind |-> "horizon", value |-> cached_horizon']
    /\ UNCHANGED <<tasks, machines, jobs, cached_lower_bound, pc, resolve_locals, ga, distributions, evaluations>>

\* absolute_lowest_bound()
AbsoluteLowestBound ==
    /\ pc = "build"
    /\ cached_lower_bound' = IF cached_lower_bound = -1
                             THEN calculate_absolute_lowest_bound(tasks, machines)
                             ELSE cached_lower_bound
    /\ result' = [kind |-> "lower_bound", value |-> cached_lower_bound']
    /\ UNCHANGED <<tasks, machines, jobs, cached_horizon, pc, resolve_locals, ga, distributions, evaluations>>

\* main(): the file is read; horizon() and absolute_lowest_bound() are both called
MainBounds ==
    /\ pc = "build"
    /\ Len(jobs) >= 1
    /\ cached_horizon' = IF cached_horizon = -1 THEN calculate_horizon(tasks) ELSE cached_horizon
    /\ cached_lower_bound' = IF cached_lower_bound = -1
                             THEN calculate_absolute_lowest_bound(tasks, machines)
                             ELSE cached_lower_bound
    /\ pc' = "ready"
    /\ result' = None
    /\ UNCHANGED <<tasks, machines, jobs, resolve_locals, ga, distributions, evaluations>>

\* the history of the last resolve_conflicts ends with the next load
ForgetResolve ==
    /\ had_collision' = FALSE
    /\ loaded' = <<>>
    /\ was_feasible' = FALSE
    /\ passes' = 0
    /\ shifts' = 0
    /\ resolves' = 0

\* fill_start_times(start_times), the length being right
FillStartTimes(start_times) ==
    /\ pc = "ready"
    /\ \E f \in fill_start_times(tasks, machines, start_times) :
         /\ tasks' = f.tasks
         /\ machines' = f.machines
         /\ pc' = IF f.outcome = "threw" THEN "threw" ELSE "loaded"
         /\ result' = IF f.outcome = "threw" THEN [kind |-> "error"] ELSE None
    /\ ForgetResolve
    /\ UNCHANGED <<jobs, cached_horizon, cached_lower_bound, ga, distributions, evaluations>>

\* the chromosomes of the template's length, and the ones that are one short
Chromosomes == [1 .. Len(tasks) -> StartTimes]
Malformed == [1 .. Len(tasks) - 1 -> StartTimes]
Inputs == Chromosomes \cup Malformed

Load == \E start_times \in Inputs : FillStartTimes(start_times)

\* resolve_conflicts() is entered
ResolveConflicts ==
    /\ Callable
    /\ resolves < MaxResolves
    /\ resolves' = resolves + 1
    /\ pc' = "job_pass"
    /\ had_collision' = FALSE
    /\ loaded' = Starts(tasks)
    /\ was_feasible' = Feasible(tasks)
    /\ passes' = 0
    /\ shifts' = 0
    /\ result' = None
    /\ UNCHANGED <<template, ga, distributions, evaluations>>

\* the first half of the loop body: had_collision = false and the pass over the jobs
JobPass ==
    /\ pc = "job_pass"
    /\ passes < MaxPasses
    /\ passes' = passes + 1
    /\ IF HasEmpty(jobs)
       THEN /\ pc' = "crashed"
            /\ UNCHANGED <<tasks, had_collision, shifts>>
       ELSE LET r == JobPassFrom(tasks, jobs, 1)
            IN  /\ tasks' = r.tasks
                /\ had_collision' = (r.shifts > 0)
                /\ shifts' = shifts + r.shifts
                /\ pc' = "machine_pass"
    /\ UNCHANGED <<machines, jobs, cached_horizon, cached_lower_bound, loaded, was_feasible,
                   resolves, result, ga, distributions, evaluations>>

\* the second half: the pass over the machines, and the loop test
MachinePass ==
    /\ pc = "machine_pass"
    /\ IF HasEmpty(machines)
       THEN /\ pc' = "crashed"
            /\ UNCHANGED <<tasks, machines, had_collision, shifts>>
       ELSE \E r \in MachinePassFrom(tasks, machines, 1) :
                /\ tasks' = r.tasks
                /\ machines' = r.machines
                /\ had_collision' = (had_collision \/ r.shifts > 0)
                /\ shifts' = shifts + r.shifts
                /\ pc' = IF had_collision' THEN "job_pass" ELSE "returned"
    /\ UNCHANGED <<jobs, cached_horizon, cached_lower_bound, loaded, was_feasible, passes,
                   resolves, result, ga, distributions, evaluations>>

\* get_chromosome()
GetChromosome ==
    /\ Callable
    /\ result' = [kind |-> "chromosome", value |-> Starts(tasks)]
    /\ pc' = "idle"
    /\ UNCHANGED <<template, resolve_locals, ga, distributions, evaluations>>

\* fitness(); total_runtime() reads the last element of every machine group
Fitness ==
    /\ Callable
    /\ IF HasEmpty(machines)
       THEN /\ pc' = "crashed"
            /\ result' = None
       ELSE /\ result' = [kind |-> "fitness",
                          value |-> fitness(tasks, machines, cached_horizon, cached_lower_bound)]
            /\ pc' = "idle"
    /\ UNCHANGED <<template, resolve_locals, ga, distributions, evaluations>>

Next ==
    \/ ReadJob
    \/ Horizon
    \/ AbsoluteLowestBound
    \/ MainBounds
    \/ Load
    \/ ResolveConflicts
    \/ JobPass
    \/ MachinePass
    \/ GetChromosome
    \/ Fitness

Spec == Init /\ [][Next]_vars

(***************************************************************************)
(* The template after repair.                                              *)
(***************************************************************************)
Repaired == pc = "returned"
T_now == total_runtime(tasks, machines)
Scored == result.kind = "fitness"

\* C1: whenever resolve_conflicts returns, the schedule is feasible: no two tasks
\* of a machine overlap and every job's steps follow each other in job order.
C1_RepairFeasible == Repaired => Feasible(tasks)

\* a repair of two jobs of two steps on two machines that needed three loop bodies
C1_Witness ==
    /\ Repaired
    /\ ~was_feasible
    /\ Len(tasks) = 4
    /\ Len(machines) = 2
    /\ passes >= 3
    /\ Feasible(tasks)

\* C2: resolve_conflicts terminates on groups that are not empty.  The passes read
\* only differences of start times, so a run that is back at the top of the loop
\* with every start time moved forward by one and the same amount can make the
\* same shifts again, and again: a resolve_conflicts that always terminates is
\* never back at the top of its loop with the schedule it was entered with moved
\* forward as a whole.
C2_Terminates ==
    (pc = "job_pass" /\ passes >= 1 /\ ~HasEmpty(jobs) /\ ~HasEmpty(machines))
        => ~(/\ tasks[1].start_time > loaded[1]
             /\ \A i \in 1 .. Len(tasks) :
                    tasks[i].start_time - loaded[i] = tasks[1].start_time - loaded[1])

\* C3 as claimed: after repair, total_runtime() <= horizon().
C3_RuntimeWithinHorizon == Repaired => T_now <= cached_horizon

\* C3 as amended: a repaired schedule may end after the horizon, and whenever it
\* does, fitness() scores it 0.0.
C3_BeyondHorizonScoresZero ==
    (Scored /\ resolves >= 1 /\ T_now > cached_horizon) => result.value = Dbl(0)

\* a repaired schedule that ends after the horizon was scored
C3_Witness ==
    /\ Scored
    /\ resolves >= 1
    /\ shifts > 0
    /\ T_now > cached_horizon
    /\ result.value = Dbl(0)

C5_Idempotent ==
    (Repaired /\ was_feasible) => (shifts = 0 /\ passes = 1 /\ Starts(tasks) = loaded)

\* the part of C7 that does not depend on how the horizon and the lower bound compare
FitnessBelowAndBeyond(H, L) ==
    \A T \in 0 .. H + 1 :
        /\ (T < L => FitnessOf(T, H, L) = Dbl(1))
        /\ (T > H => FitnessOf(T, H, L) = Dbl(0))

\* bounded in [0,1], non-increasing in T, and the linear value between the bounds
FitnessLinear(H, L) ==
    \A T \in 0 .. H + 1 :
        LET f == FitnessOf(T, H, L)
        IN  /\ IsFinite(f)
            /\ DblLeq(Dbl(0), f) /\ DblLeq(f, Dbl(1))
            /\ DblLeq(FitnessOf(T + 1, H, L), f)
            /\ (T = L => DblEq(f, Dbl(1)))
            /\ (T >= H => DblEq(f, Dbl(0)))
            /\ ((L <= T /\ T <= H) => f.n * (H - L) = ((H - L) - (T - L)) * f.d)

CachesSet == pc # "build"

C8_ZeroDenominatorGuarded ==
    (Scored /\ cached_horizon = cached_lower_bound /\ T_now = cached_horizon)
        => DblEq(result.value, Dbl(1))

(***************************************************************************)
(* resolve_conflicts as one call: every way the do-while loop can run from *)
(* the tasks ts and machine groups ms, n loop bodies having been run.  An  *)
(* outcome is "returned" with the template the call leaves, "crashed" on   *)
(* an empty group, or "running" when MaxPasses loop bodies were not enough.*)
(***************************************************************************)
\* a slip: the loop body is run once, whatever had_collision says
ResolveFrom_OnePass(ts, ms, js, n) ==
    IF HasEmpty(js) \/ HasEmpty(ms)
    THEN {[outcome |-> "crashed", tasks |-> ts, machines |-> ms]}
    ELSE { [outcome |-> "returned", tasks |-> r.tasks, machines |-> r.machines] :
              r \in MachinePassFrom(JobPassFrom(ts, js, 1).tasks, ms, 1) }

RECURSIVE ResolveFrom(_, _, _, _)
ResolveFrom(ts, ms, js, n) ==
    IF HasEmpty(js) \/ HasEmpty(ms)
    THEN {[outcome |-> "crashed", tasks |-> ts, machines |-> ms]}
    ELSE IF n = MaxPasses
    THEN {[outcome |-> "running", tasks |-> ts, machines |-> ms]}
    ELSE LET jp == JobPassFrom(ts, js, 1)
         IN  UNION { IF jp.shifts > 0 \/ r.shifts > 0
                     THEN ResolveFrom(r.tasks, r.machines, js, n + 1)
                     ELSE {[outcome |-> "returned", tasks |-> r.tasks, machines |-> r.machines]}
                     : r \in MachinePassFrom(jp.tasks, ms, 1) }

\* a slip: the chromosome is loaded and read back, and resolve_conflicts is not called
LoadRepairExtract_NoRepair(ts, ms, js, c) == fill_start_times(ts, ms, c)

\* fill_start_times(c); resolve_conflicts(); and the template get_chromosome() reads
LoadRepairExtract(ts, ms, js, c) ==
    UNION { IF f.outcome = "threw" THEN {f} ELSE ResolveFrom(f.tasks, f.machines, js, 0) :
              f \in fill_start_times(ts, ms, c) }

(***************************************************************************)
(* The genetic operators of main.cpp.                                      *)
(***************************************************************************)
MIN_MUTATION_VALUE == -2
MAX_MUTATION_VALUE == 2

\* std::swap of the positions from..to (1-based, inclusive) of two chromosomes
SwapRange(a, b, from, to) ==
    [i \in 1 .. Len(a) |-> IF from <= i /\ i <= to THEN b[i] ELSE a[i]]

\* crossover_1point: the offspring before repair, the cut being crossover_point
Cut1Point(left, right, crossover_point) ==
    <<SwapRange(left, right, 1, crossover_point), SwapRange(right, left, 1, crossover_point)>>

\* crossover_2point: the two points as drawn become the points used
Points(a, b) ==
    LET point1 == IF a > b THEN b ELSE a
        point2 == IF a > b THEN a ELSE b
    IN  <<point1, IF point1 = point2 THEN point2 + 1 ELSE point2>>

\* crossover_2point: the offspring before repair; the code swaps the 0-based
\* indices point1 .. point2 - 1
Cut2Point(left, right, a, b) ==
    LET pts == Points(a, b)
    IN  <<SwapRange(left, right, pts[1] + 1, pts[2]), SwapRange(right, left, pts[1] + 1, pts[2])>>

\* a slip: the value that went below 0 is left there
Perturb_NoReflect(input, position, mutation_value) ==
    [input EXCEPT ![position + 1] = input[position + 1] + mutation_value]

\* mutate: the chromosome before repair; position is the 0-based index drawn
Perturb(input, position, mutation_value) ==
    LET moved == input[position + 1] + mutation_value
    IN  [input EXCEPT ![position + 1] =
            IF moved < 0 THEN moved - mutation_value * 2 ELSE moved]

\* the instance files the operators are run on: the 2 x 2 instance of three and
\* four tasks with a zero-length step, and a job of two steps
OpsFiles ==
    { << <<<<0, 3>>, <<1, 2>>>>, <<<<1, 4>>, <<0, 1>>>> >>,
      << <<<<0, 0>>, <<0, 1>>>>, <<<<1, 1>>>> >>,
      << <<<<0, 1>>, <<1, 1>>>> >> }

\* main(): add_job for every line of the file, job ids counting from 0
RECURSIVE ReadFile(_, _, _)
ReadFile(T, file, line) ==
    IF line > Len(file) THEN T
    ELSE ReadFile(add_job(T, line - 1, file[line]), file, line + 1)

\* Either no operator was called before, or each was, on this template, with
\* chromosomes of its N tasks: a crossover builds its distribution only past
\* its two checks, so only when N >= 3.
EarlierCalls(N) ==
    { NotConstructed,
      [crossover_1point |-> IF N >= 3 THEN N ELSE 0,
       crossover_2point |-> IF N >= 3 THEN N ELSE 0,
       mutate |-> N] }

InitOps ==
    /\ \E file \in OpsFiles :
         LET T == ReadFile(EmptyTemplate, file, 1)
         IN  /\ tasks = T.tasks
             /\ machines = T.machines
             /\ jobs = T.jobs
             /\ cached_horizon = calculate_horizon(T.tasks)
             /\ cached_lower_bound = calculate_absolute_lowest_bound(T.tasks, T.machines)
    /\ pc = "ready"
    /\ had_collision = FALSE
    /\ loaded = <<>>
    /\ was_feasible = FALSE
    /\ passes = 0
    /\ shifts = 0
    /\ resolves = 0
    /\ result = None
    /\ population = <<>>
    /\ generation = 0
    /\ cursor = 0
    /\ mutations = 0
    /\ distributions \in EarlierCalls(Len(tasks))
    /\ evaluations = NoEvaluations

\* crossover: the two load / repair / extract rounds that end both crossovers.
\* An outcome holds how the call ended, the template it leaves, the offspring
\* before repair (raw) and as returned (value).
RepairBoth(ts, ms, js, raw) ==
    UNION { IF r1.outcome # "returned"
            THEN {[outcome |-> r1.outcome, tasks |-> r1.tasks, machines |-> r1.machines,
                   raw |-> raw, value |-> <<>>]}
            ELSE { [outcome |-> r2.outcome, tasks |-> r2.tasks, machines |-> r2.machines,
                    raw |-> raw, value |-> <<Starts(r1.tasks), Starts(r2.tasks)>>] :
                     r2 \in LoadRepairExtract(r1.tasks, r1.machines, js, raw[2]) }
            : r1 \in LoadRepairExtract(ts, ms, js, raw[1]) }

\* throw std::runtime_error: the template is as it was
Thrown(ts, ms) ==
    {[outcome |-> "threw", tasks |-> ts, machines |-> ms, raw |-> <<>>, value |-> <<>>]}

\* operator[] past the end of a std::vector is undefined: the process may stop
\* there, or the access may touch memory that is not the vector's and go on
OutOfBounds(ts, ms, raw) ==
    {[outcome |-> "crashed", tasks |-> ts, machines |-> ms, raw |-> raw, value |-> <<>>]}

\* crossover_1point(left, right): every outcome; dist was built for chromosomes
\* of `first` elements, or is built by this call when first = 0
crossover_1point(ts, ms, js, first, left, right) ==
    IF Len(left) # Len(right) THEN Thrown(ts, ms)
    ELSE IF Len(left) < 3 THEN Thrown(ts, ms)
    ELSE UNION { LET raw == Cut1Point(left, right, crossover_point)
                 IN  RepairBoth(ts, ms, js, raw)
                       \cup (IF crossover_point > Len(left)
                             THEN OutOfBounds(ts, ms, raw) ELSE {})
                 : crossover_point \in 1 .. Constructed(first, Len(left)) - 2 }

\* crossover_2point(left, right): every outcome
crossover_2point(ts, ms, js, first, left, right) ==
    IF Len(left) # Len(right) THEN Thrown(ts, ms)
    ELSE IF Len(left) < 3 THEN Thrown(ts, ms)
    ELSE UNION { LET raw == Cut2Point(left, right, pts[1], pts[2])
                 IN  RepairBoth(ts, ms, js, raw)
                       \cup (IF Points(pts[1], pts[2])[2] > Len(left)
                             THEN OutOfBounds(ts, ms, raw) ELSE {})
                 : pts \in (1 .. Constructed(first, Len(left)) - 2)
                             \X (1 .. Constructed(first, Len(left)) - 2) }

\* mutate(input): every outcome; positions_distribution was built for
\* chromosomes of `first` elements, or is built by this call when first = 0
mutate(ts, ms, js, first, input) ==
    UNION { LET raw == IF draw[1] < Len(input)
                       THEN Perturb(input, draw[1], draw[2]) ELSE input
            IN  { [outcome |-> r.outcome, tasks |-> r.tasks, machines |-> r.machines,
                   raw |-> <<raw>>, value |-> <<Starts(r.tasks)>>] :
                     r \in LoadRepairExtract(ts, ms, js, raw) }
                  \cup (IF draw[1] < Len(input) THEN {} ELSE OutOfBounds(ts, ms, <<raw>>))
            : draw \in (0 .. Constructed(first, Len(input)) - 1)
                          \X (MIN_MUTATION_VALUE .. MAX_MUTATION_VALUE) }

\* An operator call ends: it returned, or it did not (r.outcome).  Every call
\* overwrites all start times and sorts every machine group again, so the
\* template a call starts from does not matter to it, and a behaviour follows
\* one call; what earlier calls leave to it is the static distribution.
\* The result keeps the arguments and the locals of the call (op, parents, raw).
OperatorEnds(r, kind, op, parents) ==
    /\ tasks' = r.tasks
    /\ machines' = r.machines
    /\ pc' = IF r.outcome = "returned" THEN "idle" ELSE r.outcome
    /\ result' = [kind |-> IF r.outcome = "returned" THEN kind
                           ELSE IF r.outcome = "threw" THEN "error" ELSE "none",
                  op |-> op, parents |-> parents, raw |-> r.raw, value |-> r.value]
    /\ distributions' = IF r.raw = <<>> THEN distributions
                        ELSE [distributions EXCEPT ![op] = Constructed(@, Len(parents[1]))]
    /\ UNCHANGED <<jobs, cached_horizon, cached_lower_bound, resolve_locals, ga, evaluations>>

Crossover1Point ==
    /\ pc = "ready"
    /\ \E left, right \in Inputs :
       \E r \in crossover_1point(tasks, machines, jobs, distributions.crossover_1point,
                                 left, right) :
         OperatorEnds(r, "offspring", "crossover_1point", <<left, right>>)

Crossover2Point ==
    /\ pc = "ready"
    /\ \E left, right \in Inputs :
       \E r \in crossover_2point(tasks, machines, jobs, distributions.crossover_2point,
                                 left, right) :
         OperatorEnds(r, "offspring", "crossover_2point", <<left, right>>)

Mutate ==
    /\ pc = "ready"
    /\ \E input \in Inputs :
       \E r \in mutate(tasks, machines, jobs, distributions.mutate, input) :
         OperatorEnds(r, "mutant", "mutate", <<input>>)

NextOps ==
    \/ Load
    \/ Crossover1Point
    \/ Crossover2Point
    \/ Mutate

SpecOps == InitOps /\ [][NextOps]_vars

\* C6: crossover_1point, crossover_2point and mutate return chromosomes of the
\* length of their input, each a feasible schedule of the instance.
C6_OperatorsFeasible ==
    result.kind \in {"offspring", "mutant"} =>
        \A k \in 1 .. Len(result.value) :
            /\ Len(result.value[k]) = Len(result.raw[k])
            /\ Feasible(FilledTasks(tasks, result.value[k]))

\* a crossover of the 2 x 2 instance returned two offspring, both moved by repair
C6_Witness ==
    /\ result.kind = "offspring"
    /\ Len(tasks) = 4
    /\ ~Feasible(FilledTasks(tasks, result.raw[1]))
    /\ ~Feasible(FilledTasks(tasks, result.raw[2]))
    /\ result.value[1] # result.raw[1]
    /\ result.value[2] # result.raw[2]

(***************************************************************************)
(* solve_using_genetic_algorithm (main.cpp).  A Specimen is the tuple      *)
(* {chromosome, fitness, generation} of common.h, whose Fitness is an int. *)
(***************************************************************************)
population_size == 4    \* 10000 in main.cpp
generations == 3        \* 500 in main.cpp
MaxMutations == 1       \* should_mutate is drawn true at most this often in a run

index_of_middle_specimen == population_size \div 2 - 1
index_of_last_specimen == population_size - 1

\* the instance file of the run: three jobs of one unit step, a machine each
GAFiles == { << <<<<0, 1>>>>, <<<<1, 1>>>>, <<<<2, 1>>>> >> }

\* what the conversion of NaN or an infinity to int can leave (undefined in C++)
UndefinedInts == {-2147483647 - 1, 0}

\* double to Fitness (int): the fraction is dropped
ToFitness(x) ==
    IF ~IsFinite(x) THEN UndefinedInts
    ELSE IF x.n >= 0 THEN {x.n \div x.d} ELSE {-((-x.n) \div x.d)}

\* fill_start_times(c); fitness() stored into a Fitness: every outcome
Score(ts, ms, H, L, c) ==
    UNION { { [fitness |-> f, tasks |-> FilledTasks(ts, c), machines |-> m] :
                f \in ToFitness(fitness(FilledTasks(ts, c), m, H, L)) }
            : m \in SortAll(ms, FilledTasks(ts, c), 1) }

\* lines 301-310: the specimens tagged with this generation are scored
RECURSIVE EvaluateFrom(_, _, _, _, _, _, _)
EvaluateFrom(pop, ts, ms, H, L, gen, i) ==
    IF i > Len(pop) THEN {[population |-> pop, tasks |-> ts, machines |-> ms]}
    ELSE IF pop[i].generation # gen THEN EvaluateFrom(pop, ts, ms, H, L, gen, i + 1)
    ELSE UNION { EvaluateFrom([pop EXCEPT ![i].fitness = sc.fitness],
                              sc.tasks, sc.machines, H, L, gen, i + 1) :
                    sc \in Score(ts, ms, H, L, pop[i].chromosome) }

\* std::sort by fitness descending: the order of equal fitnesses is unspecified
SortedByFitness(pop) ==
    { p \in PermsOf(pop) :
        \A i \in 1 .. Len(p) - 1 : p[i].fitness >= p[i + 1].fitness }

\* std::swap of the 0-based indices a and b
SwapSpecimens(pop, a, b) ==
    [pop EXCEPT ![a + 1] = pop[b + 1], ![b + 1] = pop[a + 1]]

\* lines 340-369: the breeding loop from the 0-based index i on
RECURSIVE BreedFrom(_, _, _, _, _, _, _)
BreedFrom(pop, ts, ms, js, first, gen, i) ==
    IF i >= population_size \div 2
    THEN {[outcome |-> "returned", population |-> pop, tasks |-> ts, machines |-> ms]}
    ELSE UNION { IF r.outcome # "returned"
                 THEN {[outcome |-> r.outcome, population |-> pop,
                        tasks |-> r.tasks, machines |-> r.machines]}
                 ELSE BreedFrom(
                        [pop EXCEPT
                           ![population_size \div 2 + i + 1] =
                               [chromosome |-> r.value[1], fitness |-> 0, generation |-> gen + 1],
                           ![population_size \div 2 + i + 2] =
                               [chromosome |-> r.value[2], fitness |-> 0, generation |-> gen + 1]],
                        r.tasks, r.machines, js, Constructed(first, Len(ts)), gen, i + 2)
                 : r \in crossover_1point(ts, ms, js, first,
                                          pop[i + 1].chromosome, pop[i + 2].chromosome) }

InitGA ==
    /\ \E file \in GAFiles :
         LET T == ReadFile(EmptyTemplate, file, 1)
         IN  /\ tasks = T.tasks
             /\ machines = T.machines
             /\ jobs = T.jobs
             /\ cached_horizon = calculate_horizon(T.tasks)
             /\ cached_lower_bound = calculate_absolute_lowest_bound(T.tasks, T.machines)
    /\ pc = "ga_build"
    /\ had_collision = FALSE
    /\ loaded = <<>>
    /\ was_feasible = FALSE
    /\ passes = 0
    /\ shifts = 0
    /\ resolves = 0
    /\ result = None
    /\ population = <<>>
    /\ generation = 0
    /\ cursor = 0
    /\ mutations = 0
    /\ distributions = NotConstructed
    /\ evaluations = NoEvaluations

GAKeeps == UNCHANGED <<jobs, cached_horizon, cached_lower_bound, resolve_locals>>

\* lines 294-297: population.push_back({ make_chromosome(), 0, 0 })
MakeSpecimen ==
    /\ pc = "ga_build"
    /\ \E raw \in [1 .. Len(tasks) -> 0 .. cached_horizon \div 2] :
       \E r \in LoadRepairExtract(tasks, machines, jobs, raw) :
         /\ tasks' = r.tasks
         /\ machines' = r.machines
         /\ IF r.outcome = "returned"
            THEN /\ population' = Append(population,
                        [chromosome |-> Starts(r.tasks), fitness |-> 0, generation |-> 0])
                 /\ pc' = IF Len(population') < population_size THEN "ga_build" ELSE "ga_evaluate"
            ELSE /\ population' = population
                 /\ pc' = r.outcome
    /\ UNCHANGED <<generation, cursor, mutations, result, distributions, evaluations>>
    /\ GAKeeps

\* lines 301-310
Evaluate ==
    /\ pc = "ga_evaluate"
    /\ \E e \in EvaluateFrom(population, tasks, machines, cached_horizon, cached_lower_bound,
                             generation, 1) :
         /\ population' = e.population
         /\ tasks' = e.tasks
         /\ machines' = e.machines
    /\ pc' = "ga_sort"
    /\ UNCHANGED <<generation, cursor, mutations, result, distributions, evaluations>>
    /\ GAKeeps

\* lines 312-314
Sort ==
    /\ pc = "ga_sort"
    /\ population' \in SortedByFitness(population)
    /\ pc' = "ga_report"
    /\ UNCHANGED <<tasks, machines, generation, cursor, mutations, result, distributions, evaluations>>
    /\ GAKeeps

\* lines 316-334: the report of every 50th generation, and the break
Report ==
    /\ pc = "ga_report"
    /\ result' = IF generation % 50 = 0
                 THEN [kind |-> "report",
                       value |-> <<population[1].fitness, population[2].fitness,
                                   population[3].fitness,
                                   population[population_size - 1].fitness,
                                   population[population_size].fitness>>]
                 ELSE result
    /\ pc' = IF generation = generations - 1 THEN "ga_return" ELSE "ga_breed"
    /\ UNCHANGED <<tasks, machines, population, generation, cursor, mutations, distributions, evaluations>>
    /\ GAKeeps

\* lines 337-369: the worst specimen joins the parents, the pairs breed
Breed ==
    /\ pc = "ga_breed"
    /\ \E b \in BreedFrom(SwapSpecimens(population, index_of_middle_specimen, index_of_last_specimen),
                          tasks, machines, jobs, distributions.crossover_1point,
                          generation, 0) :
         /\ population' = b.population
         /\ tasks' = b.tasks
         /\ machines' = b.machines
         /\ pc' = IF b.outcome = "returned" THEN "ga_mutate" ELSE b.outcome
    /\ cursor' = 0
    /\ distributions' = [distributions EXCEPT
                            !.crossover_1point = Constructed(@, Len(tasks))]
    /\ UNCHANGED <<generation, mutations, result, evaluations>>
    /\ GAKeeps

\* lines 372-386, should_mutate true: the specimen at the cursor is mutated,
\* and scored again if its tag is this generation
MutateSpecimen ==
    /\ pc = "ga_mutate"
    /\ cursor < population_size
    /\ mutations < MaxMutations
    /\ \E r \in mutate(tasks, machines, jobs, distributions.mutate,
                       population[cursor + 1].chromosome) :
         IF r.outcome # "returned"
         THEN /\ pc' = r.outcome
              /\ tasks' = r.tasks
              /\ machines' = r.machines
              /\ population' = population
         ELSE IF population[cursor + 1].generation = generation
         THEN \E sc \in Score(r.tasks, r.machines, cached_horizon, cached_lower_bound, r.value[1]) :
                /\ population' = [population EXCEPT ![cursor + 1].chromosome = r.value[1],
                                                    ![cursor + 1].fitness = sc.fitness]
                /\ tasks' = sc.tasks
                /\ machines' = sc.machines
                /\ pc' = pc
         ELSE /\ population' = [population EXCEPT ![cursor + 1].chromosome = r.value[1]]
              /\ tasks' = r.tasks
              /\ machines' = r.machines
              /\ pc' = pc
    /\ cursor' = cursor + 1
    /\ mutations' = mutations + 1
    /\ distributions' = [distributions EXCEPT !.mutate = Constructed(@, Len(tasks))]
    /\ UNCHANGED <<generation, result, evaluations>>
    /\ GAKeeps

\* lines 372-386, should_mutate false
KeepSpecimen ==
    /\ pc = "ga_mutate"
    /\ cursor < population_size
    /\ cursor' = cursor + 1
    /\ UNCHANGED <<tasks, machines, pc, population, generation, mutations, result, distributions, evaluations>>
    /\ GAKeeps

\* line 299: ++generation
NextGeneration ==
    /\ pc = "ga_mutate"
    /\ cursor = population_size
    /\ generation' = generation + 1
    /\ pc' = "ga_evaluate"
    /\ UNCHANGED <<tasks, machines, population, cursor, mutations, result, distributions, evaluations>>
    /\ GAKeeps

\* lines 389-396: the best specimen is loaded, printed and returned
ReturnBest ==
    /\ pc = "ga_return"
    /\ tasks' = FilledTasks(tasks, population[1].chromosome)
    /\ machines' \in SortAll(machines, tasks', 1)
    /\ result' = [kind |-> "specimen", value |-> population[1]]
    /\ pc' = "idle"
    /\ UNCHANGED <<population, generation, cursor, mutations, distributions, evaluations>>
    /\ GAKeeps

NextGA ==
    \/ MakeSpecimen
    \/ Evaluate
    \/ Sort
    \/ Report
    \/ Breed
    \/ MutateSpecimen
    \/ KeepSpecimen
    \/ NextGeneration
    \/ ReturnBest

SpecGA == InitGA /\ [][NextGA]_vars

\* The same run on an instance whose chromosomes need repair: a job of two
\* steps, the second of length 0, and a one-step job of length 0 that shares
\* the machine of the first step.  Its horizon is 1, so make_chromosome draws
\* every start time from 0 .. 0.
RepairFiles == { << <<<<0, 1>>, <<1, 0>>>>, <<<<0, 0>>>> >> }

InitGARepair ==
    /\ \E file \in RepairFiles :
         LET T == ReadFile(EmptyTemplate, file, 1)
         IN  /\ tasks = T.tasks
             /\ machines = T.machines
             /\ jobs = T.jobs
             /\ cached_horizon = calculate_horizon(T.tasks)
             /\ cached_lower_bound = calculate_absolute_lowest_bound(T.tasks, T.machines)
    /\ pc = "ga_build"
    /\ had_collision = FALSE
    /\ loaded = <<>>
    /\ was_feasible = FALSE
    /\ passes = 0
    /\ shifts = 0
    /\ resolves = 0
    /\ result = None
    /\ population = <<>>
    /\ generation = 0
    /\ cursor = 0
    /\ mutations = 0
    /\ distributions = NotConstructed
    /\ evaluations = NoEvaluations

SpecGARepair == InitGARepair /\ [][NextGA]_vars

\* the Fitness values that scoring the chromosome c now can store
FitnessesNow(c) ==
    { sc.fitness : sc \in Score(tasks, machines, cached_horizon, cached_lower_bound, c) }

\* the values fitness() can return for the chromosome c
FitnessValues(c) ==
    { fitness(FilledTasks(tasks, c), m, cached_horizon, cached_lower_bound) :
        m \in SortAll(machines, FilledTasks(tasks, c), 1) }

\* C9: where the population is sorted, reported or its best returned, every
\* specimen's stored fitness is the fitness of the chromosome it holds.
C9_NoStaleFitness ==
    pc \in {"ga_sort", "ga_report", "ga_return"} =>
        \A i \in 1 .. Len(population) :
            population[i].fitness \in FitnessesNow(population[i].chromosome)

\* C10: the fitness stored for a specimen scored in this generation equals the
\* value fitness() returns for its chromosome, and the sort orders two such
\* specimens by those values.
C10_StoredFitnessExact ==
    /\ pc = "ga_sort" =>
         \A i \in 1 .. Len(population) :
            population[i].generation = generation =>
                \E v \in FitnessValues(population[i].chromosome) :
                    DblEq(Dbl(population[i].fitness), v)
    /\ (pc = "ga_report" /\ generation = 0) =>
         \A i, j \in 1 .. Len(population) :
            i < j => \E v \in FitnessValues(population[i].chromosome),
                        w \in FitnessValues(population[j].chromosome) : DblLeq(w, v)

\* C11: a call rejected for malformed input (fill_start_times with a chromosome
\* of another length than the task count, a crossover with parents of unequal
\* length or of fewer than 3 genes) throws with the template as it was before
\* the call: no start time and no machine-group order has changed.
C11_RejectedLeavesTemplate ==
    [][pc' = "threw" => (tasks' = tasks /\ machines' = machines /\ jobs' = jobs)]_vars

\* a call on the template of four tasks was rejected
C11_Witness == pc = "threw" /\ result.kind = "error" /\ Len(tasks) = 4

(***************************************************************************)
(* The template under construction: add_job called once per job id, in    *)
(* any order of the ids, with horizon() and absolute_lowest_bound() called *)
(* at any time in between.                                                 *)
(***************************************************************************)
JobIds == {0, 1}

AddedJobs == { tasks[i].job_id : i \in 1 .. Len(tasks) }

CallAddJob ==
    \E job_id \in JobIds \ AddedJobs : \E steps \in StepLists : AddJob(job_id, steps)

NextBuild ==
    \/ CallAddJob
    \/ Horizon
    \/ AbsoluteLowestBound

SpecBuild == Init /\ [][NextBuild]_vars

\* how many times the task index i occurs in the groups
Occurrences(groups, i) ==
    Cardinality({ <<g, k>> \in (1 .. Len(groups)) \X (1 .. Len(tasks)) :
                    k <= Len(groups[g]) /\ groups[g][k] = i })

\* C12: after add_job calls, one per job id and in any order of the ids, every
\* task index is in exactly one job group, the group of its job_id at the place
\* of its sequence_number, and in exactly one machine group, the group of its
\* machine_id.
C12_IndexInvariant ==
    \A i \in 1 .. Len(tasks) :
        /\ Occurrences(jobs, i) = 1
        /\ tasks[i].job_id + 1 <= Len(jobs)
        /\ tasks[i].sequence_number + 1 <= Len(jobs[tasks[i].job_id + 1])
        /\ jobs[tasks[i].job_id + 1][tasks[i].sequence_number + 1] = i
        /\ Occurrences(machines, i) = 1
        /\ tasks[i].machine_id + 1 <= Len(machines)
        /\ \E k \in 1 .. Len(machines[tasks[i].machine_id + 1]) :
                machines[tasks[i].machine_id + 1][k] = i

\* C19: whatever add_job, horizon() and absolute_lowest_bound() calls came before,
\* horizon() returns the sum of the lengths of the tasks now in the catalog and
\* absolute_lowest_bound() the largest sum of lengths on one machine; a value
\* cached before a later add_job is not returned.
C19_CacheCoherence ==
    /\ result.kind = "horizon" => result.value = calculate_horizon(tasks)
    /\ result.kind = "lower_bound" =>
            result.value = calculate_absolute_lowest_bound(tasks, machines)
    /\ cached_horizon # -1 => cached_horizon = calculate_horizon(tasks)
    /\ cached_lower_bound # -1 =>
            cached_lower_bound = calculate_absolute_lowest_bound(tasks, machines)

\* both jobs are added, both bounds were computed after the last add_job, and
\* horizon() has just returned the sum 3 of the lengths of both jobs
C19_Witness ==
    /\ result.kind = "horizon"
    /\ AddedJobs = JobIds
    /\ cached_lower_bound # -1
    /\ result.value = 3
    /\ cached_lower_bound = 2

\* the makespan of a schedule: the largest end time of all its tasks
Makespan(ts) ==
    IF ts = <<>> THEN 0
    ELSE CHOOSE e \in { EndTime(ts[i]) : i \in 1 .. Len(ts) } :
            \A i \in 1 .. Len(ts) : EndTime(ts[i]) <= e

\* C13: for a repaired schedule (start times not negative), total_runtime() is
\* the makespan: the largest start + length over all tasks, not only over the
\* last task of each machine group.
C13_RuntimeIsMakespan == Repaired => T_now = Makespan(tasks)

\* a repair shifted tasks of four tasks on two machines; the schedule ends at 3
C13_Witness ==
    /\ Repaired
    /\ shifts > 0
    /\ Len(tasks) = 4
    /\ Len(machines) = 2
    /\ T_now = 3
    /\ Makespan(tasks) = 3

(***************************************************************************)
(* The template of the instance job 0 = (machine 0, 3) (machine 1, 2),     *)
(* job 1 = (machine 1, 4) (machine 0, 1), loaded, repaired and scored as   *)
(* exact_test does.                                                        *)
(***************************************************************************)
ExampleFile == << <<<<0, 3>>, <<1, 2>>>>, <<<<1, 4>>, <<0, 1>>>> >>

\* the start times of the chromosomes loaded: 0, half the horizon, near the horizon
ExampleStarts == {0, 5, 8}

InitExample ==
    /\ LET T == ReadFile(EmptyTemplate, ExampleFile, 1)
       IN  /\ tasks = T.tasks
           /\ machines = T.machines
           /\ jobs = T.jobs
           /\ cached_horizon = calculate_horizon(T.tasks)
           /\ cached_lower_bound = calculate_absolute_lowest_bound(T.tasks, T.machines)
    /\ pc = "ready"
    /\ had_collision = FALSE
    /\ loaded = <<>>
    /\ was_feasible = FALSE
    /\ passes = 0
    /\ shifts = 0
    /\ resolves = 0
    /\ result = None
    /\ population = <<>>
    /\ generation = 0
    /\ cursor = 0
    /\ mutations = 0
    /\ distributions = NotConstructed
    /\ evaluations = NoEvaluations

LoadExample == \E test \in [1 .. Len(tasks) -> ExampleStarts] : FillStartTimes(test)

NextExample ==
    \/ LoadExample
    \/ ResolveConflicts
    \/ JobPass
    \/ MachinePass
    \/ GetChromosome
    \/ Fitness

SpecExample == InitExample /\ [][NextExample]_vars

\* the bounds of the instance, and a fitness in [0,1] for a repaired schedule
ExampleBounds ==
    /\ cached_lower_bound = 6
    /\ cached_horizon = 10
    /\ (Repaired => 6 <= T_now)
    /\ ((Scored /\ resolves >= 1) =>
            (DblLeq(Dbl(0), result.value) /\ DblLeq(result.value, Dbl(1))))

\* C14 as claimed: on this instance absolute_lowest_bound() = 6, horizon() = 10,
\* and after load and repair of any chromosome total_runtime() is in [6,10] and
\* fitness() in [0,1].
C14_Example == ExampleBounds /\ (Repaired => T_now <= 10)

\* C14 as amended: the bounds are 6 and 10, total_runtime() is at least 6 and
\* fitness() is in [0,1]; total_runtime() can exceed 10, and fitness() is then 0.0.
C14_ExampleAmended ==
    /\ ExampleBounds
    /\ ((Scored /\ resolves >= 1 /\ T_now > 10) => result.value = Dbl(0))

\* a repaired schedule of the instance that ends after 10 was scored 0.0
C14_Witness ==
    /\ Scored
    /\ resolves >= 1
    /\ T_now > 10
    /\ Feasible(tasks)
    /\ result.value = Dbl(0)

\* C15: the loop of resolve_conflicts has an iteration cap: when the loop bodies
\* run reach it, the call stops and reports that the repair did not converge.
\* Whatever the cap is, a call that has run MaxPasses loop bodies or more is then
\* not about to run another one.
C15_IterationCap ==
    ~(pc = "job_pass" /\ passes >= MaxPasses /\ had_collision)

\* the machine group g is in the order of the start times of its tasks
TimeSorted(g) ==
    \A i \in 1 .. Len(g) - 1 : tasks[g[i]].start_time <= tasks[g[i + 1]].start_time

\* C16: when fill_start_times has returned and when resolve_conflicts has returned,
\* every machine group is in the order of non-decreasing start times, so that the
\* last task of a group starts latest on its machine.
C16_MachineGroupsSorted ==
    pc \in {"loaded", "returned"} =>
        \A m \in 1 .. Len(machines) : TimeSorted(machines[m])

\* a repair that shifted tasks returned with a machine group whose order is not
\* the order in which its tasks were added
C16_Witness ==
    /\ Repaired
    /\ shifts > 0
    /\ \E m \in 1 .. Len(machines) :
          /\ Len(machines[m]) = 2
          /\ machines[m][1] > machines[m][2]
          /\ tasks[machines[m][1]].start_time < tasks[machines[m][2]].start_time

\* no start time is smaller in the next state than in this one
NoTaskMovesBack ==
    \A i \in 1 .. Len(tasks) : tasks'[i].start_time >= tasks[i].start_time

\* C17: repair only moves tasks forward: no step of resolve_conflicts lowers a
\* start time, and the chromosome read after repair is pointwise at least the
\* chromosome that was loaded.
C17_ShiftsForward ==
    /\ [][(pc \in {"job_pass", "machine_pass"}) => (NoTaskMovesBack)]_vars
    /\ [](Repaired => \A i \in 1 .. Len(tasks) : tasks[i].start_time >= loaded[i])

\* a repair returned after moving two tasks or more, one of them past the start
\* times any chromosome loads
C17_Witness ==
    /\ Repaired
    /\ shifts >= 2
    /\ Starts(tasks) # loaded
    /\ \E i \in 1 .. Len(tasks) : tasks[i].start_time > MaxStart + 1

\* the catalog fields of the tasks: all but the start time
Catalog(ts) ==
    [i \in 1 .. Len(ts) |->
        [job_id |-> ts[i].job_id, machine_id |-> ts[i].machine_id,
         sequence_number |-> ts[i].sequence_number, length |-> ts[i].length]]

\* the tasks of every machine group, whatever their order
Members(groups) ==
    [g \in 1 .. Len(groups) |-> { groups[g][k] : k \in 1 .. Len(groups[g]) }]

\* C18: fill_start_times, resolve_conflicts and get_chromosome leave the catalog
\* (job_id, machine_id, sequence_number and length of every task), every job
\* group and its order, and the set of tasks of every machine group as they are;
\* get_chromosome changes nothing in the template.
C18_Frame ==
    [][/\ (pc # "build") =>
            /\ Catalog(tasks') = Catalog(tasks)
            /\ jobs' = jobs
            /\ Members(machines') = Members(machines)
            /\ \A m \in 1 .. Len(machines) : Len(machines'[m]) = Len(machines[m])
       /\ (result'.kind = "chromosome" /\ result.kind # "chromosome") =>
            (tasks' = tasks /\ machines' = machines)]_vars

\* get_chromosome returned the start times of a repaired schedule in which a
\* machine group is no longer in the order its tasks were added
C18_Witness ==
    /\ result.kind = "chromosome"
    /\ result.value = Starts(tasks)
    /\ resolves >= 1
    /\ shifts > 0
    /\ \E m \in 1 .. Len(machines) : \E k \in 1 .. Len(machines[m]) - 1 :
            machines[m][k] > machines[m][k + 1]


(***************************************************************************)
(* Evaluations side by side.  main.cpp has one global solution_template,   *)
(* and every evaluation is the three calls fill_start_times,               *)
(* resolve_conflicts, get_chromosome on it.  Two evaluations make their    *)
(* calls in any order (shared), or an evaluation has the template to       *)
(* itself from its load to its extract (exclusive), or each evaluation has *)
(* a template of its own (own).  A call is one step.                       *)
(***************************************************************************)
Access == {"shared", "exclusive", "own"}
Evaluators == {1, 2}

\* the instance file: a job of one step, and a job of two steps that starts
\* on the same machine
EvaluationFile == << <<<<0, 1>>>>, <<<<0, 1>>, <<1, 1>>>> >>

InitEvaluations ==
    /\ LET T == ReadFile(EmptyTemplate, EvaluationFile, 1)
       IN  /\ tasks = T.tasks
           /\ machines = T.machines
           /\ jobs = T.jobs
           /\ cached_horizon = calculate_horizon(T.tasks)
           /\ cached_lower_bound = calculate_absolute_lowest_bound(T.tasks, T.machines)
           /\ \E access \in Access :
                evaluations =
                   [access |-> access, holder |-> 0,
                    of |-> [e \in Evaluators |->
                              [at |-> "start", chromosome |-> <<>>, extracted |-> <<>>,
                               tasks |-> T.tasks, machines |-> T.machines]]]
    /\ pc = "evaluating"
    /\ had_collision = FALSE
    /\ loaded = <<>>
    /\ was_feasible = FALSE
    /\ passes = 0
    /\ shifts = 0
    /\ resolves = 0
    /\ result = None
    /\ population = <<>>
    /\ generation = 0
    /\ cursor = 0
    /\ mutations = 0
    /\ distributions = NotConstructed

\* the template the calls of evaluation e work on
TemplateOf(e) ==
    IF evaluations.access = "own"
    THEN [tasks |-> evaluations.of[e].tasks, machines |-> evaluations.of[e].machines]
    ELSE [tasks |-> tasks, machines |-> machines]

\* a call of evaluation e has run: the template it worked on holds ts and ms,
\* the evaluation is as ev says, and holder has the template to itself
EvaluationStep(e, ts, ms, ev, holder) ==
    /\ IF evaluations.access = "own"
       THEN /\ evaluations' = [evaluations EXCEPT
                                 !.of[e] = [ev EXCEPT !.tasks = ts, !.machines = ms]]
            /\ UNCHANGED <<tasks, machines>>
       ELSE /\ evaluations' = [evaluations EXCEPT !.holder = holder, !.of[e] = ev]
            /\ tasks' = ts
            /\ machines' = ms
    /\ UNCHANGED <<jobs, cached_horizon, cached_lower_bound, pc, resolve_locals, result, ga,
                   distributions>>

\* solution_template.fill_start_times(chromosome) of evaluation e
EvaluationLoads(e) ==
    /\ pc = "evaluating"
    /\ evaluations.of[e].at = "start"
    /\ evaluations.access = "exclusive" => evaluations.holder = 0
    /\ \E chromosome \in Chromosomes :
       \E f \in fill_start_times(TemplateOf(e).tasks, TemplateOf(e).machines, chromosome) :
          EvaluationStep(e, f.tasks, f.machines,
                         [evaluations.of[e] EXCEPT !.at = "loaded", !.chromosome = chromosome],
                         IF evaluations.access = "exclusive" THEN e ELSE 0)

\* solution_template.resolve_conflicts() of evaluation e
EvaluationRepairs(e) ==
    /\ pc = "evaluating"
    /\ evaluations.of[e].at = "loaded"
    /\ \E r \in ResolveFrom(TemplateOf(e).tasks, TemplateOf(e).machines, jobs, 0) :
          EvaluationStep(e, r.tasks, r.machines,
                         [evaluations.of[e] EXCEPT
                            !.at = IF r.outcome = "returned" THEN "repaired" ELSE r.outcome],
                         evaluations.holder)

\* solution_template.get_chromosome() of evaluation e
EvaluationExtracts(e) ==
    /\ pc = "evaluating"
    /\ evaluations.of[e].at = "repaired"
    /\ EvaluationStep(e, TemplateOf(e).tasks, TemplateOf(e).machines,
                      [evaluations.of[e] EXCEPT !.at = "done",
                                                !.extracted = Starts(TemplateOf(e).tasks)],
                      0)

NextEvaluations ==
    \/ \E e \in Evaluators : EvaluationLoads(e)
    \/ \E e \in Evaluators : EvaluationRepairs(e)
    \/ \E e \in Evaluators : EvaluationExtracts(e)

SpecEvaluations == InitEvaluations /\ [][NextEvaluations]_vars

(***************************************************************************)
(* The template as a class: add_job with the job ids in any order,         *)
(* horizon() and absolute_lowest_bound() called or not, and then the       *)
(* template is loaded and scored.  Nothing in SolutionTemplate.h makes a   *)
(* caller compute the bounds first.                                        *)
(***************************************************************************)
\* the caller is done with add_job, whatever it has called so far
StartUsing ==
    /\ pc = "build"
    /\ pc' = "ready"
    /\ result' = None
    /\ UNCHANGED <<template, resolve_locals, ga, distributions, evaluations>>

NextCalls ==
    \/ CallAddJob
    \/ Horizon
    \/ AbsoluteLowestBound
    \/ StartUsing
    \/ Load
    \/ Fitness

SpecCalls == Init /\ [][NextCalls]_vars

(***************************************************************************)
(* C20: the exchange a crossover makes before repair.                      *)
(***************************************************************************)
\* a crossover got past its checks: its parents and its two offspring before
\* repair are known
CrossoverCut ==
    /\ "op" \in DOMAIN result
    /\ result.op \in {"crossover_1point", "crossover_2point"}
    /\ result.raw # <<>>

\* C20: for parents of length n >= 3, 1-point crossover exchanges exactly the
\* positions [0, c) for one cut 1 <= c <= n - 2, and 2-point crossover exactly
\* the positions [p1, p2) with 1 <= p1 < p2 <= n - 1 (positions counted from 0),
\* so that at every position the two offspring before repair hold the two
\* parents' values, one each.
C20_SegmentExchange ==
    CrossoverCut =>
        LET left == result.parents[1]
            right == result.parents[2]
            n == Len(left)
            offspring1 == result.raw[1]
            offspring2 == result.raw[2]
            ExchangedIn(from, to) ==
                \A i \in 0 .. n - 1 :
                    IF from <= i /\ i < to
                    THEN offspring1[i + 1] = right[i + 1] /\ offspring2[i + 1] = left[i + 1]
                    ELSE offspring1[i + 1] = left[i + 1] /\ offspring2[i + 1] = right[i + 1]
        IN  /\ n >= 3
            /\ Len(offspring1) = n /\ Len(offspring2) = n
            /\ \A i \in 1 .. n :
                    \/ offspring1[i] = left[i] /\ offspring2[i] = right[i]
                    \/ offspring1[i] = right[i] /\ offspring2[i] = left[i]
            /\ result.op = "crossover_1point" =>
                    \E c \in 1 .. n - 2 : ExchangedIn(0, c)
            /\ result.op = "crossover_2point" =>
                    \E p1 \in 1 .. n - 2 : \E p2 \in p1 + 1 .. n - 1 : ExchangedIn(p1, p2)

\* the same for the calls whose parents have the length the distribution of the
\* cut points was built for
C20_FirstLength ==
    (CrossoverCut /\ distributions[result.op] = Len(result.parents[1])) => C20_SegmentExchange


(***************************************************************************)
(* C21: what mutate does to its input before repair.                       *)
(***************************************************************************)
\* mutate was called: its input and the vector it built before repair are known
MutateCalled ==
    /\ "op" \in DOMAIN result
    /\ result.op = "mutate"

\* what an entry can become under a delta: the sum, or entry + |delta| when
\* the sum is negative
Reflected(entry, delta) ==
    IF entry + delta < 0 THEN entry + (IF delta < 0 THEN -delta ELSE delta)
    ELSE entry + delta

\* C21: for an input with all entries >= 0, the vector mutate builds before
\* repair differs from the input at one position at most, there by a delta of
\* MIN_MUTATION_VALUE .. MAX_MUTATION_VALUE, reflected to entry + |delta| when
\* the sum would be negative; every entry of that vector, and of the repaired
\* vector mutate returns, is >= 0.
C21_MutatePerturbation ==
    (MutateCalled /\ \A i \in 1 .. Len(result.parents[1]) : result.parents[1][i] >= 0) =>
        LET input == result.parents[1]
            before_repair == result.raw[1]
        IN  /\ Len(before_repair) = Len(input)
            /\ Cardinality({i \in 1 .. Len(input) : before_repair[i] # input[i]}) <= 1
            /\ \A i \in 1 .. Len(input) :
                  before_repair[i] # input[i] =>
                     \E delta \in -2 .. 2 : before_repair[i] = Reflected(input[i], delta)
            /\ \A i \in 1 .. Len(input) : before_repair[i] >= 0
            /\ result.kind = "mutant" =>
                  \A i \in 1 .. Len(result.value[1]) : result.value[1][i] >= 0

\* mutate returned after a delta of -2 on an entry 1 was reflected to 3
C21_Witness ==
    /\ MutateCalled
    /\ result.kind = "mutant"
    /\ \E i \in 1 .. Len(result.parents[1]) :
          /\ result.parents[1][i] = 1
          /\ result.raw[1][i] = 3
          /\ result.value[1][i] >= 3


(***************************************************************************)
(* C22: evaluations that share the template.                               *)
(***************************************************************************)
\* x is what load / repair / extract gives for the chromosome c: one of the
\* outcomes of the three calls made in a row, which is a feasible schedule, no
\* start before the loaded one, and c itself when c is feasible
IsRepairOf(x, c) ==
    /\ x \in { Starts(r.tasks) :
                 r \in { o \in LoadRepairExtract(tasks, machines, jobs, c) :
                           o.outcome = "returned" } }
    /\ Len(x) = Len(c)
    /\ Feasible(FilledTasks(tasks, x))
    /\ \A i \in 1 .. Len(c) : x[i] >= c[i]
    /\ Feasible(FilledTasks(tasks, c)) => x = c

\* C22: when every evaluation has the template to itself from its load to its
\* extract, or has a template of its own, the chromosome it extracts is the
\* repair of the chromosome it loaded; on one shared template whose calls
\* interleave that fails (C22_Witness).
C22_ExclusiveIsSafe ==
    \A e \in DOMAIN evaluations.of :
        (evaluations.access \in {"exclusive", "own"} /\ evaluations.of[e].at = "done") =>
            IsRepairOf(evaluations.of[e].extracted, evaluations.of[e].chromosome)

\* on the shared template an evaluation extracted a chromosome that is not the
\* repair of the one it loaded
C22_Witness ==
    /\ evaluations.access = "shared"
    /\ \E e \in DOMAIN evaluations.of :
          /\ evaluations.of[e].at = "done"
          /\ ~IsRepairOf(evaluations.of[e].extracted, evaluations.of[e].chromosome)


(***************************************************************************)
(* C23: what each pass of resolve_conflicts leaves.                        *)
(***************************************************************************)
\* in the group g every task ends before the next one of the group starts
NoAdjacentOverlap(g) ==
    \A i \in 1 .. Len(g) - 1 :
        tasks[g[i]].start_time + tasks[g[i]].length <= tasks[g[i + 1]].start_time

\* the job pass of the running resolve_conflicts has just ended
AfterJobPass == pc = "machine_pass"

\* the machine pass of the running resolve_conflicts has just ended
AfterMachinePass == pc = "returned" \/ (pc = "job_pass" /\ passes > 0)

\* the shift the code makes at the pair (i, i + 1) of the group g, when it makes one:
\* only the tasks of g after position i move, all by the same amount, so the gaps
\* between them stay, and the pair touches
ShiftKeepsGaps(g, i) ==
    LET diff == tasks[g[i]].start_time + tasks[g[i]].length - tasks[g[i + 1]].start_time
        moved == ShiftTail(tasks, g, i + 1, diff)
    IN  diff > 0 =>
          /\ \A j, k \in i + 1 .. Len(g) :
                moved[g[k]].start_time - moved[g[j]].start_time
                   = tasks[g[k]].start_time - tasks[g[j]].start_time
          /\ \A t \in 1 .. Len(tasks) :
                (\A j \in i + 1 .. Len(g) : g[j] # t) => moved[t] = tasks[t]
          /\ moved[g[i]].start_time + moved[g[i]].length = moved[g[i + 1]].start_time

\* C23: right after the job pass of any iteration every job has
\* start_i + duration_i <= start_{i+1} for all consecutive steps; right after the
\* machine pass every machine group is time-sorted with no overlap between
\* adjacent tasks; and a shift of a tail by diff keeps the gaps between the
\* shifted tasks.
C23_PassPostconditions ==
    /\ AfterJobPass => \A j \in 1 .. Len(jobs) : NoAdjacentOverlap(jobs[j])
    /\ AfterMachinePass =>
          \A m \in 1 .. Len(machines) :
              NoAdjacentOverlap(machines[m]) /\ TimeSorted(machines[m])
    /\ \A j \in 1 .. Len(jobs) : \A i \in 1 .. Len(jobs[j]) - 1 : ShiftKeepsGaps(jobs[j], i)
    /\ \A m \in 1 .. Len(machines) :
          \A i \in 1 .. Len(machines[m]) - 1 : ShiftKeepsGaps(machines[m], i)

\* a job pass has just shifted tasks and left a machine with an overlap for
\* the machine pass to resolve
C23_Witness ==
    /\ AfterJobPass
    /\ had_collision
    /\ \E j \in 1 .. Len(jobs) : Len(jobs[j]) >= 2
    /\ ~MachineFeasible(tasks)


(***************************************************************************)
(* C24: load / repair / extract on a template that was used before.        *)
(***************************************************************************)
\* the machine groups as add_job built them: the task indices in rising order
AsBuilt(ms) ==
    [m \in 1 .. Len(ms) |->
        CHOOSE p \in PermsOf(ms[m]) : \A i \in 1 .. Len(p) - 1 : p[i] < p[i + 1]]

\* the chromosomes load / repair / extract can return for c on the template
\* whose machine groups are ms
RepairsOn(ms, c) ==
    { Starts(r.tasks) :
        r \in { o \in LoadRepairExtract(tasks, ms, jobs, c) : o.outcome = "returned" } }

\* C24: for the same loaded chromosome, the template left by earlier loads and
\* repairs and a template of the same instance that was never used return the
\* same repaired chromosome, however the sort orders tasks of equal start time.
C24_HistoryIndependent ==
    Callable =>
        \A c \in Chromosomes :
            \A x \in RepairsOn(machines, c) : \A y \in RepairsOn(AsBuilt(machines), c) : x = y


(***************************************************************************)
(* C25: fitness() before the bounds are computed.                          *)
(***************************************************************************)
\* C25: fitness() reads the two cached fields as they are; while both still
\* hold -1 (the bounds were never asked for, or only before the last add_job)
\* it returns 0.0 for every schedule whose total_runtime() is >= 0.
C25_UncachedScoresZero ==
    (Scored /\ cached_horizon = -1 /\ cached_lower_bound = -1 /\ T_now >= 0)
        => result.value = Dbl(0)

\* fitness() returned 0 with both caches at -1 for a schedule that ends at its
\* lower bound, which fitness() scores 1 once the bounds are computed
C25_Witness ==
    /\ Scored
    /\ cached_horizon = -1
    /\ cached_lower_bound = -1
    /\ result.value = Dbl(0)
    /\ ~HasEmpty(machines)
    /\ T_now > 0
    /\ T_now = calculate_absolute_lowest_bound(tasks, machines)
    /\ T_now < calculate_horizon(tasks)


(***************************************************************************)
(* C26: the groups resolve_conflicts and total_runtime walk through.       *)
(***************************************************************************)
\* C26: for every instance add_job has built, resolve_conflicts and
\* total_runtime read only positions that exist: no job group and no machine
\* group is empty when a pass or total_runtime takes its size() - 1.
C26_IndexSafety ==
    /\ pc \in {"job_pass", "machine_pass"} => (~HasEmpty(jobs) /\ ~HasEmpty(machines))
    /\ pc # "crashed"


(***************************************************************************)
(* C27: the population of solve_using_genetic_algorithm.                   *)
(***************************************************************************)
\* the initial population is complete
PopulationBuilt ==
    pc \in {"ga_evaluate", "ga_sort", "ga_report", "ga_breed", "ga_mutate", "ga_return", "idle"}

\* C27: once the initial population is generated, and after every breeding and
\* mutation step of every generation, the population has population_size
\* specimens, and every chromosome in it has the length N of the task catalog,
\* no negative start time, and is a feasible schedule.
C27_PopulationInvariant ==
    /\ PopulationBuilt => Len(population) = population_size
    /\ \A s \in 1 .. Len(population) :
          /\ Len(population[s].chromosome) = Len(tasks)
          /\ \A i \in 1 .. Len(tasks) : population[s].chromosome[i] >= 0
          /\ Feasible(FilledTasks(tasks, population[s].chromosome))

\* the all-zero seed make_chromosome draws is not feasible, and after a
\* mutation the population holds an offspring of a later generation with a
\* start time of 2 or more
C27_Witness ==
    /\ pc = "ga_mutate"
    /\ mutations >= 1
    /\ generation >= 1
    /\ ~Feasible(FilledTasks(tasks, [i \in 1 .. Len(tasks) |-> 0]))
    /\ \E s \in 1 .. Len(population) :
          /\ population[s].generation >= 2
          /\ \E i \in 1 .. Len(tasks) : population[s].chromosome[i] >= 2

====
